---- MODULE Spec2Model ----
(***************************************************************************)
(* Model of the order-placement and cart logic of src/sales.py             *)
(* (DatabaseManager and the page handlers that call it).                   *)
(*                                                                         *)
(* All sessions share ONE sqlite3 connection (init_database and            *)
(* get_db_manager are st.cache_resource).  `db` is what that connection    *)
(* sees (committed rows plus the writes of its open transaction),          *)
(* `durable` is what the last commit left in the file.  conn.commit()      *)
(* makes durable equal db, conn.rollback() makes db equal durable.         *)
(*                                                                         *)
(* Money is modelled in cents (integers).  Rows carry only the columns     *)
(* the handlers read or that tell rows apart; timestamps, names and        *)
(* addresses are left out.  The catalogue is fixed (the staff page that    *)
(* adds products, the sign-up, profile and report pages are not modelled), *)
(* and no handler changes a product's price.                               *)
(*                                                                         *)
(* Every cursor.execute of create_order and the SELECT and the write of    *)
(* add_to_cart are steps of their own; execute_update (statement and       *)
(* commit) is one step, and so is the cart page's get_cart_items.          *)
(* Four specifications run these steps:                                    *)
(*   Spec            one handler call at a time, each run to its return;   *)
(*   SpecNoStockUpdate  the same, the staff page's stock form left alone;  *)
(*   SpecConcurrent  the sessions' steps interleaved;                      *)
(*   SpecRace        two create_order calls interleaved, started where     *)
(*                   both customers hold the whole stock of a product.     *)
(***************************************************************************)
EXTENDS Integers, Sequences, FiniteSets, TLC

\* ---------------------------------------------------------------- bounds
MaxStock == 1      \* largest stock the staff form and Init put into a product
MaxQty == 2        \* largest quantity one add_to_cart call is given
MaxCalls == 4      \* how many handler calls one run makes
MaxConcurrentCalls == 3   \* the same, when the sessions' statements interleave

\* ------------------------------------------------------------- constants
Customers == {1, 2}
Products == {1, 2}
Sessions == {1, 2}

\* price column of the sample products, in cents
price == [p \in Products |-> IF p = 1 THEN 1990 ELSE 6990]

\* uuid.uuid4().hex[:8].upper() behind the fixed prefix: 32 random bits, so
\* two draws may coincide; two values are enough to show both outcomes
TrackingNumbers == {"UNIQLO0000000A", "UNIQLO0000000B"}

StatusValues == {"Pending", "Processing", "Shipped", "Delivered", "Cancelled"}

\* Python's None as a return value (row ids start at 1)
None == 0
\* Python's True / False as return values
PyTrue == 1
PyFalse == 0

VARIABLES
    db,           \* the tables as the shared connection sees them
    durable,      \* the tables as of the last commit
    customer_id,  \* st.session_state.customer_id of each session
    pc,           \* where each session's current DatabaseManager call stands
    frame,        \* the local variables of that call
    result,       \* the value the call returned (read at pc = "done")
    calls,        \* how many handler calls have started
    pre           \* history: db as the session's current call found it
                  \* (kept by Spec and SpecRace)

vars == <<db, durable, customer_id, pc, frame, result, calls, pre>>

\* ---------------------------------------------------------------- helpers
RECURSIVE SetMax(_)
SetMax(S) ==
    LET x == CHOOSE y \in S : TRUE
    IN  IF S = {x} THEN x
        ELSE LET m == SetMax(S \ {x}) IN IF x > m THEN x ELSE m

\* INTEGER PRIMARY KEY without AUTOINCREMENT: the new rowid is the largest
\* rowid in the table plus one
lastrowid(ids) == IF ids = {} THEN 1 ELSE SetMax(ids) + 1

RECURSIVE SortByCartId(_)
SortByCartId(rows) ==
    IF rows = {} THEN <<>>
    ELSE LET r == CHOOSE x \in rows : \A y \in rows : x.cart_id <= y.cart_id
         IN  <<r>> \o SortByCartId(rows \ {r})

RECURSIVE SeqSum(_)
SeqSum(s) == IF s = <<>> THEN 0 ELSE Head(s) + SeqSum(Tail(s))

EmptyDB ==
    [stock |-> [p \in Products |-> 0], Cart |-> {}, Payment |-> {},
     Shipment |-> {}, Order |-> {}, Order_Item |-> {}]

EmptyFrame ==
    [op |-> "", product_id |-> 0, quantity |-> 0, cart_id |-> 0, existing |-> <<>>,
     cart_items |-> <<>>,
     total_amount |-> 0, payment_id |-> 0, shipment_id |-> 0, order_id |-> 0,
     item |-> 0]

\* ------------------------------------------------------- DatabaseManager
\* SELECT cart_id, quantity FROM Cart WHERE customer_id = ? AND product_id = ?
SelectExisting(d, c, p) ==
    SortByCartId({r \in d.Cart : r.customer_id = c /\ r.product_id = p})

\* the bug of a cart query without its WHERE clause
get_cart_items_of_all(d, c) ==
    LET rows == SortByCartId(d.Cart)
    IN  [k \in 1..Len(rows) |->
            [cart_id     |-> rows[k].cart_id,
             product_id  |-> rows[k].product_id,
             price       |-> price[rows[k].product_id],
             quantity    |-> rows[k].quantity,
             total_price |-> price[rows[k].product_id] * rows[k].quantity]]

\* SELECT ... FROM Cart c JOIN Product p ... WHERE c.customer_id = ?
get_cart_items(d, c) ==
    LET rows == SortByCartId({r \in d.Cart : r.customer_id = c})
    IN  [k \in 1..Len(rows) |->
            [cart_id     |-> rows[k].cart_id,
             product_id  |-> rows[k].product_id,
             price       |-> price[rows[k].product_id],
             quantity    |-> rows[k].quantity,
             total_price |-> price[rows[k].product_id] * rows[k].quantity]]

CartIds(d) == {r.cart_id : r \in d.Cart}
PaymentIds(d) == {r.payment_id : r \in d.Payment}
ShipmentIds(d) == {r.shipment_id : r \in d.Shipment}
OrderIds(d) == {r.order_id : r \in d.Order}
OrderItemIds(d) == {r.order_item_id : r \in d.Order_Item}

Idle(s) == pc[s] = "idle"

\* a handler call starts
Call == calls' = calls + 1

\* ---- get_cart_items, as the cart page calls it
\* the bug of a read that consumes the rows it returns
execute_query_deleting(d, c) == [d EXCEPT !.Cart = {r \in d.Cart : r.customer_id # c}]

\* what execute_query leaves of the tables: cursor.execute of the SELECT and
\* fetchall, no write and no commit
execute_query(d, c) == d

\* cart_items = db.get_cart_items(st.session_state.customer_id); the list
\* returned is kept in frame[s].cart_items
GetCartItems(s) ==
    /\ Idle(s)
    /\ Call
    /\ db' = execute_query(db, customer_id[s])
    /\ frame' = [frame EXCEPT ![s] =
                    [EmptyFrame EXCEPT
                        !.op = "get_cart_items",
                        !.cart_items = get_cart_items(db, customer_id[s])]]
    /\ pc' = [pc EXCEPT ![s] = "done"]
    /\ UNCHANGED <<durable, customer_id, result>>

\* ---- add_to_cart
\* the SELECT of add_to_cart
AddToCartSelect(s, p, q) ==
    LET existing == SelectExisting(db, customer_id[s], p) IN
    /\ Idle(s)
    /\ Call
    /\ pc' = [pc EXCEPT ![s] = "atc_write"]
    /\ frame' = [frame EXCEPT ![s] =
                    [EmptyFrame EXCEPT !.op = "add_to_cart",
                                       !.product_id = p, !.quantity = q,
                                       !.existing = existing]]
    /\ UNCHANGED <<db, durable, customer_id, result>>

\* the bug of overwriting the line's quantity instead of adding to it
NewQuantityOverwrites(existing_quantity, quantity) == quantity

\* new_quantity = existing[0][1] + quantity
NewQuantity(existing_quantity, quantity) == existing_quantity + quantity

\* UPDATE Cart SET quantity = ? WHERE cart_id = ?
UpdateCartQuantity(d, new_quantity, id) ==
    [d EXCEPT !.Cart = {IF r.cart_id = id THEN [r EXCEPT !.quantity = new_quantity]
                                          ELSE r : r \in d.Cart}]

\* INSERT INTO Cart (customer_id, product_id, quantity, added_date)
InsertCart(d, c, p, q) ==
    [d EXCEPT !.Cart = d.Cart \cup
        {[cart_id |-> lastrowid(CartIds(d)), customer_id |-> c,
          product_id |-> p, quantity |-> q]}]

\* the UPDATE or INSERT of add_to_cart, with execute_update's commit
AddToCartWrite(s) ==
    LET f == frame[s] IN
    /\ pc[s] = "atc_write"
    /\ db' = IF f.existing # <<>>
                THEN UpdateCartQuantity(db,
                        NewQuantity(f.existing[1].quantity, f.quantity),
                        f.existing[1].cart_id)
                ELSE InsertCart(db, customer_id[s], f.product_id, f.quantity)
    /\ durable' = db'
    /\ result' = [result EXCEPT ![s] = PyTrue]
    /\ frame' = [frame EXCEPT ![s].existing = <<>>]
    /\ pc' = [pc EXCEPT ![s] = "done"]
    /\ UNCHANGED <<customer_id, calls>>

\* ---- remove_from_cart
\* the bug of a DELETE that takes every line up to the given one
DeleteCartLinesUpTo(d, id) == [d EXCEPT !.Cart = {r \in d.Cart : r.cart_id > id}]

\* DELETE FROM Cart WHERE cart_id = ?
DeleteCartLine(d, id) == [d EXCEPT !.Cart = {r \in d.Cart : r.cart_id # id}]

RemoveFromCart(s, id) ==
    /\ Idle(s)
    /\ Call
    /\ db' = DeleteCartLine(db, id)
    /\ durable' = db'
    /\ result' = [result EXCEPT ![s] =
                    IF db'.Cart # db.Cart THEN PyTrue ELSE PyFalse]
    /\ frame' = [frame EXCEPT ![s] = [EmptyFrame EXCEPT !.op = "remove_from_cart", !.cart_id = id]]
    /\ pc' = [pc EXCEPT ![s] = "done"]
    /\ UNCHANGED customer_id

\* ---- create_order
CoSteps == {"co_payment", "co_shipment", "co_order", "co_item", "co_stock",
            "co_clear", "co_commit"}

\* the bug of summing the unit prices, quantities ignored
TotalAmountOfPrices(cart_items) ==
    SeqSum([k \in 1..Len(cart_items) |-> cart_items[k].price])

\* sum(item['total_price'] for item in cart_items)
TotalAmount(cart_items) ==
    SeqSum([k \in 1..Len(cart_items) |-> cart_items[k].total_price])

\* what a finished create_order leaves of its frame
CreateOrderDone == [EmptyFrame EXCEPT !.op = "create_order"]

\* the bug of a missing empty-cart test
NotCartItemsNever(cart_items) == FALSE

\* if not cart_items
NotCartItems(cart_items) == cart_items = <<>>

\* cart_items = self.get_cart_items(customer_id); if not cart_items: return None
CreateOrderStart(s) ==
    LET cart_items == get_cart_items(db, customer_id[s]) IN
    /\ Idle(s)
    /\ Call
    /\ IF NotCartItems(cart_items)
          THEN /\ result' = [result EXCEPT ![s] = None]
               /\ pc' = [pc EXCEPT ![s] = "done"]
               /\ frame' = [frame EXCEPT ![s] = CreateOrderDone]
          ELSE /\ frame' = [frame EXCEPT ![s] =
                              [EmptyFrame EXCEPT
                                  !.op = "create_order",
                                  !.cart_items = cart_items,
                                  !.total_amount = TotalAmount(cart_items),
                                  !.item = 1]]
               /\ pc' = [pc EXCEPT ![s] = "co_payment"]
               /\ UNCHANGED result
    /\ UNCHANGED <<db, durable, customer_id>>

\* INSERT INTO Payment ...; payment_id = cursor.lastrowid
CreateOrderPayment(s) ==
    LET payment_id == lastrowid(PaymentIds(db)) IN
    /\ pc[s] = "co_payment"
    /\ db' = [db EXCEPT !.Payment = db.Payment \cup
                {[payment_id |-> payment_id, customer_id |-> customer_id[s],
                  amount |-> frame[s].total_amount]}]
    /\ frame' = [frame EXCEPT ![s].payment_id = payment_id]
    /\ pc' = [pc EXCEPT ![s] = "co_shipment"]
    /\ UNCHANGED <<durable, customer_id, result, calls>>

\* INSERT INTO Shipment ...; shipment_id = cursor.lastrowid
CreateOrderShipment(s, tracking_number) ==
    LET shipment_id == lastrowid(ShipmentIds(db)) IN
    /\ pc[s] = "co_shipment"
    /\ db' = [db EXCEPT !.Shipment = db.Shipment \cup
                {[shipment_id |-> shipment_id,
                  tracking_number |-> tracking_number]}]
    /\ frame' = [frame EXCEPT ![s].shipment_id = shipment_id]
    /\ pc' = [pc EXCEPT ![s] = "co_order"]
    /\ UNCHANGED <<durable, customer_id, result, calls>>

\* the bug of leaving the new order's status to the column's default
InitialStatusDefault == "Pending"

\* the status create_order writes into the new Order row
InitialStatus == "Processing"

\* the bug of an Order row that always points at the first Payment row
OrderRowOfFirstPayment(order_id, c, total_amount, payment_id, shipment_id) ==
    [order_id |-> order_id, customer_id |-> c, total_amount |-> total_amount,
     payment_id |-> 1, shipment_id |-> shipment_id, status |-> "Processing"]

\* the values of INSERT INTO "Order" (customer_id, order_date, total_amount,
\* payment_id, shipment_id, status)
OrderRow(order_id, c, total_amount, payment_id, shipment_id) ==
    [order_id |-> order_id, customer_id |-> c, total_amount |-> total_amount,
     payment_id |-> payment_id, shipment_id |-> shipment_id,
     status |-> InitialStatus]

\* INSERT INTO "Order" ...; order_id = cursor.lastrowid
CreateOrderOrder(s) ==
    LET order_id == lastrowid(OrderIds(db)) IN
    /\ pc[s] = "co_order"
    /\ db' = [db EXCEPT !.Order = db.Order \cup
                {OrderRow(order_id, customer_id[s], frame[s].total_amount,
                          frame[s].payment_id, frame[s].shipment_id)}]
    /\ frame' = [frame EXCEPT ![s].order_id = order_id]
    /\ pc' = [pc EXCEPT ![s] = IF frame[s].item <= Len(frame[s].cart_items)
                                   THEN "co_item" ELSE "co_clear"]
    /\ UNCHANGED <<durable, customer_id, result, calls>>

\* the bug of an Order_Item row that records one unit whatever the line holds
OrderItemRowOfOneUnit(d, order_id, item) ==
    [order_item_id |-> lastrowid(OrderItemIds(d)), order_id |-> order_id,
     product_id |-> item.product_id, quantity |-> 1,
     unit_price |-> item.price]

\* the Order_Item row written for one element of cart_items
OrderItemRow(d, order_id, item) ==
    [order_item_id |-> lastrowid(OrderItemIds(d)), order_id |-> order_id,
     product_id |-> item.product_id, quantity |-> item.quantity,
     unit_price |-> item.price]

\* for item in cart_items: INSERT INTO Order_Item ...
CreateOrderItem(s) ==
    LET item == frame[s].cart_items[frame[s].item] IN
    /\ pc[s] = "co_item"
    /\ db' = [db EXCEPT !.Order_Item =
                db.Order_Item \cup {OrderItemRow(db, frame[s].order_id, item)}]
    /\ pc' = [pc EXCEPT ![s] = "co_stock"]
    /\ UNCHANGED <<durable, customer_id, frame, result, calls>>

\* the bug of taking one unit off the stock whatever the quantity
DecrementStockByOne(d, quantity, product_id) ==
    [d EXCEPT !.stock[product_id] = d.stock[product_id] - 1]

\* UPDATE Product SET stock = stock - ? WHERE product_id = ?
DecrementStock(d, quantity, product_id) ==
    [d EXCEPT !.stock[product_id] = d.stock[product_id] - quantity]

\* ... UPDATE Product SET stock = stock - ?; then the next item or the clear
CreateOrderStock(s) ==
    LET item == frame[s].cart_items[frame[s].item] IN
    /\ pc[s] = "co_stock"
    /\ db' = DecrementStock(db, item.quantity, item.product_id)
    /\ IF frame[s].item < Len(frame[s].cart_items)
          THEN /\ frame' = [frame EXCEPT ![s].item = frame[s].item + 1]
               /\ pc' = [pc EXCEPT ![s] = "co_item"]
          ELSE /\ frame' = frame
               /\ pc' = [pc EXCEPT ![s] = "co_clear"]
    /\ UNCHANGED <<durable, customer_id, result, calls>>

\* the bug of a cart clear without its WHERE clause
ClearCartOfAll(d, c) == [d EXCEPT !.Cart = {}]

\* the bug of a cart clear that deletes nothing
ClearCartKeepsLines(d, c) == d

\* DELETE FROM Cart WHERE customer_id = ?
ClearCart(d, c) == [d EXCEPT !.Cart = {r \in d.Cart : r.customer_id # c}]

CreateOrderClear(s) ==
    /\ pc[s] = "co_clear"
    /\ db' = ClearCart(db, customer_id[s])
    /\ pc' = [pc EXCEPT ![s] = "co_commit"]
    /\ UNCHANGED <<durable, customer_id, frame, result, calls>>

\* self.conn.commit(); return order_id
CreateOrderCommit(s) ==
    /\ pc[s] = "co_commit"
    /\ durable' = db
    /\ result' = [result EXCEPT ![s] = frame[s].order_id]
    /\ frame' = [frame EXCEPT ![s] = CreateOrderDone]
    /\ pc' = [pc EXCEPT ![s] = "done"]
    /\ UNCHANGED <<db, customer_id, calls>>

\* the bug of an except branch that does not roll back
RollbackMissing(d, committed) == d

\* what conn.rollback() leaves the connection seeing
Rollback(d, committed) == committed

\* the statement about to run raises (a storage failure):
\* except Exception: self.conn.rollback(); return None
CreateOrderFails(s) ==
    /\ pc[s] \in CoSteps
    /\ db' = Rollback(db, durable)
    /\ result' = [result EXCEPT ![s] = None]
    /\ frame' = [frame EXCEPT ![s] = CreateOrderDone]
    /\ pc' = [pc EXCEPT ![s] = "done"]
    /\ UNCHANGED <<durable, customer_id, calls>>

\* ---- the caller takes the return value; the call is over
Return(s) ==
    /\ pc[s] = "done"
    /\ pc' = [pc EXCEPT ![s] = "idle"]
    /\ frame' = [frame EXCEPT ![s] = EmptyFrame]
    /\ result' = [result EXCEPT ![s] = None]
    /\ UNCHANGED <<db, durable, customer_id, calls>>

\* ---- staff pages (each is one execute_update: statement and commit)
\* UPDATE Product SET stock = ? WHERE product_id = ?
StaffUpdateStock(p, new_stock) ==
    /\ Call
    /\ db' = [db EXCEPT !.stock[p] = new_stock]
    /\ durable' = db'
    /\ UNCHANGED <<customer_id, pc, frame, result>>

\* the bug of a status update that also resets the order's total
SetStatusResetsTotal(d, new_status, order_id) ==
    [d EXCEPT !.Order = {IF r.order_id = order_id
                            THEN [r EXCEPT !.status = new_status,
                                           !.total_amount = 0]
                            ELSE r : r \in d.Order}]

\* the bug of a status update that leaves a delivered order as it is
SetStatusUnlessDelivered(d, new_status, order_id) ==
    [d EXCEPT !.Order = {IF r.order_id = order_id /\ r.status # "Delivered"
                            THEN [r EXCEPT !.status = new_status]
                            ELSE r : r \in d.Order}]

\* UPDATE "Order" SET status = ? WHERE order_id = ?
SetStatus(d, new_status, order_id) ==
    [d EXCEPT !.Order = {IF r.order_id = order_id
                            THEN [r EXCEPT !.status = new_status]
                            ELSE r : r \in d.Order}]

\* the "Update Status" button of an order's expander: any of the five
\* statuses of the selectbox, whatever the order's status is
StaffUpdateStatus(o, new_status) ==
    /\ o \in OrderIds(db)
    /\ Call
    /\ db' = SetStatus(db, new_status, o)
    /\ durable' = db'
    /\ UNCHANGED <<customer_id, pc, frame, result>>

\* ------------------------------------------------------- specifications
\* init_database: the sample products are in stock, every other table is
\* empty; then each session logs a customer in
Init ==
    /\ db = [EmptyDB EXCEPT !.stock = [p \in Products |-> MaxStock]]
    /\ durable = db
    /\ customer_id \in {f \in [Sessions -> Customers] : f[1] = 1}
    /\ pc = [s \in Sessions |-> "idle"]
    /\ frame = [s \in Sessions |-> EmptyFrame]
    /\ result = [s \in Sessions |-> None]
    /\ calls = 0
    /\ pre = [s \in Sessions |-> EmptyDB]

\* The pages pass remove_from_cart the cart_id of a listed line; the list
\* may be stale, so the id of a line that is gone is offered as well.
\* add_to_cart is given one unit (the home page's button) or MaxQty units
\* (the shop page's number input; add_to_cart itself tests no stock).
SessionStep(s) ==
    \/ \E p \in Products, q \in {1, MaxQty} : AddToCartSelect(s, p, q)
    \/ AddToCartWrite(s)
    \/ \E id \in CartIds(db) \cup {lastrowid(CartIds(db))} : RemoveFromCart(s, id)
    \/ GetCartItems(s)
    \/ CreateOrderStart(s)
    \/ CreateOrderPayment(s)
    \/ \E tn \in TrackingNumbers : CreateOrderShipment(s, tn)
    \/ CreateOrderOrder(s)
    \/ CreateOrderItem(s)
    \/ CreateOrderStock(s)
    \/ CreateOrderClear(s)
    \/ CreateOrderCommit(s)
    \/ CreateOrderFails(s)
    \/ Return(s)

\* the stock form is given its least value (min_value=0) or the largest
\* stock of the model
StaffStep ==
    \/ \E p \in Products, n \in {0, MaxStock} : StaffUpdateStock(p, n)
    \/ \E o \in OrderIds(db), st \in StatusValues : StaffUpdateStatus(o, st)

\* history: db as the call of session s found it
RecordPre(s) ==
    pre' = [pre EXCEPT ![s] = IF pc'[s] = "idle" THEN EmptyDB
                              ELSE IF pc[s] = "idle" THEN db ELSE pre[s]]

\* One request at a time (the single-writer-per-request model): a call runs
\* to its return before another starts.
Next ==
    \/ \E s \in Sessions :
          /\ \A t \in Sessions \ {s} : Idle(t)
          /\ SessionStep(s)
          /\ RecordPre(s)
          /\ calls' <= MaxCalls
    \/ /\ \A t \in Sessions : Idle(t)
       /\ StaffStep
       /\ UNCHANGED pre
       /\ calls' <= MaxCalls

Spec == Init /\ [][Next]_vars

\* The same runs with the staff page's stock form left alone: the only
\* writer of Product.stock is create_order.
NextNoStockUpdate ==
    \/ \E s \in Sessions :
          /\ \A t \in Sessions \ {s} : Idle(t)
          /\ SessionStep(s)
          /\ RecordPre(s)
          /\ calls' <= MaxCalls
    \/ /\ \A t \in Sessions : Idle(t)
       /\ \E o \in OrderIds(db), st \in StatusValues : StaffUpdateStatus(o, st)
       /\ UNCHANGED pre
       /\ calls' <= MaxCalls

SpecNoStockUpdate == Init /\ [][NextNoStockUpdate]_vars

\* Streamlit runs every session's script in its own thread, all on the one
\* cached connection: the statements of their calls interleave.
NextConcurrent ==
    \/ \E s \in Sessions :
          /\ SessionStep(s)
          /\ UNCHANGED pre
          /\ calls' <= MaxConcurrentCalls
    \/ /\ StaffStep
       /\ UNCHANGED pre
       /\ calls' <= MaxConcurrentCalls

SpecConcurrent == Init /\ [][NextConcurrent]_vars

\* The race of two checkouts: the state in which a product has stock n and
\* two customers each hold n units of it in their carts (RaceScenario, a
\* state Spec reaches), and from there one create_order call per session,
\* their statements interleaved in every way, no statement failing.
RaceScenario(p, n) ==
    /\ customer_id[1] # customer_id[2]
    /\ \A s \in Sessions : Idle(s)
    /\ db = durable
    /\ db.stock[p] = n
    /\ db.Payment = {} /\ db.Shipment = {} /\ db.Order = {} /\ db.Order_Item = {}
    /\ \A s \in Sessions :
          \E r \in db.Cart :
             /\ {x \in db.Cart : x.customer_id = customer_id[s]} = {r}
             /\ r.product_id = p /\ r.quantity = n

InitRace ==
    /\ \E p \in Products, n \in 1..MaxStock :
          db = InsertCart(InsertCart(
                  [EmptyDB EXCEPT !.stock = [x \in Products |-> IF x = p THEN n ELSE MaxStock]],
                  1, p, n), 2, p, n)
    /\ durable = db
    /\ customer_id = [s \in Sessions |-> s]
    /\ pc = [s \in Sessions |-> "idle"]
    /\ frame = [s \in Sessions |-> EmptyFrame]
    /\ result = [s \in Sessions |-> None]
    /\ calls = 0
    /\ pre = [s \in Sessions |-> EmptyDB]

NextRace ==
    \E s \in Sessions :
       /\ \/ CreateOrderStart(s)
          \/ CreateOrderPayment(s)
          \/ \E tn \in TrackingNumbers : CreateOrderShipment(s, tn)
          \/ CreateOrderOrder(s)
          \/ CreateOrderItem(s)
          \/ CreateOrderStock(s)
          \/ CreateOrderClear(s)
          \/ CreateOrderCommit(s)
       /\ RecordPre(s)

SpecRace == InitRace /\ [][NextRace]_vars

\* ------------------------------------------------------------- properties
CartOf(d, c) == {r \in d.Cart : r.customer_id = c}

\* session s has just come back from a call of handler op
Done(s, op) == pc[s] = "done" /\ frame[s].op = op

Succeeded(s) == Done(s, "create_order") /\ result[s] # None

RECURSIVE SumQuantity(_, _)
\* the units of product p in a set of cart lines
SumQuantity(lines, p) ==
    IF lines = {} THEN 0
    ELSE LET l == CHOOSE x \in lines : TRUE
         IN  (IF l.product_id = p THEN l.quantity ELSE 0)
             + SumQuantity(lines \ {l}, p)

RECURSIVE SumLineTotals(_)
\* the sum of quantity * unit_price over a set of Order_Item rows
SumLineTotals(items) ==
    IF items = {} THEN 0
    ELSE LET i == CHOOSE x \in items : TRUE
         IN  i.quantity * i.unit_price + SumLineTotals(items \ {i})

ItemsOf(d, order_id) == {i \in d.Order_Item : i.order_id = order_id}

\* C1: in every reachable state every Product row, as committed, has a
\* stock that is not negative.
C1_StockNeverNegative == \A p \in Products : durable.stock[p] >= 0

\* C2: a create_order call that found a cart line asking for more than the
\* product's stock has failed, changed no stock and created no Payment,
\* Shipment, Order or Order_Item row.
C2_InsufficientStockFails ==
    \A s \in Sessions :
       (/\ Done(s, "create_order")
        /\ \E l \in CartOf(pre[s], customer_id[s]) :
              l.quantity > pre[s].stock[l.product_id])
       => /\ result[s] = None
          /\ db.stock = pre[s].stock
          /\ db.Payment = pre[s].Payment /\ db.Shipment = pre[s].Shipment
          /\ db.Order = pre[s].Order /\ db.Order_Item = pre[s].Order_Item

\* C3: started where a product has stock N and two customers each hold N
\* units of it, the two create_order calls never both succeed, however
\* their statements interleave, and the stock does not end below zero.
C3_AtMostOneSucceeds ==
    (\A s \in Sessions : pc[s] = "done")
    => /\ \E s \in Sessions : result[s] = None
       /\ \A p \in Products : durable.stock[p] >= 0

\* C4: create_order is all-or-nothing.  A call that returned None (a write
\* failed, or the cart was empty) left the tables, as seen and as committed,
\* exactly as it found them; a call that returned an order id committed the
\* order with its payment and shipment, an order item and a stock decrement
\* for every cart line, and the cart clear.
C4_AllOrNothing ==
    \A s \in Sessions :
       Done(s, "create_order") =>
          IF result[s] = None
             THEN db = pre[s] /\ durable = pre[s]
             ELSE /\ durable = db
                  /\ \E o \in db.Order \ pre[s].Order :
                        /\ o.order_id = result[s]
                        /\ \E pay \in db.Payment \ pre[s].Payment :
                              pay.payment_id = o.payment_id
                        /\ \E sh \in db.Shipment \ pre[s].Shipment :
                              sh.shipment_id = o.shipment_id
                  /\ \A l \in CartOf(pre[s], customer_id[s]) :
                        /\ \E i \in db.Order_Item \ pre[s].Order_Item :
                              i.order_id = result[s] /\ i.product_id = l.product_id
                        /\ db.stock[l.product_id] < pre[s].stock[l.product_id]
                  /\ CartOf(db, customer_id[s]) = {}

\* a create_order call failed after it had read a cart with lines in it
C4_Witness ==
    \E s \in Sessions :
       /\ Done(s, "create_order") /\ result[s] = None
       /\ CartOf(pre[s], customer_id[s]) # {}
       /\ pre[s].Order # {}

\* C5: create_order for a customer with no cart lines returns None and
\* leaves every table, stock and all carts included, as it found them.
C5_EmptyCartFails ==
    \A s \in Sessions :
       (Done(s, "create_order") /\ CartOf(pre[s], customer_id[s]) = {})
       => result[s] = None /\ db = pre[s] /\ durable = pre[s]

\* create_order came back for a customer without cart lines while another
\* customer's cart held some
C5_Witness ==
    \E s \in Sessions :
       /\ Done(s, "create_order")
       /\ CartOf(pre[s], customer_id[s]) = {}
       /\ pre[s].Cart # {}

\* C6: a successful create_order lowered the stock of every product by the
\* quantity of the customer's cart lines for it (by nothing for a product
\* not in the cart) and created exactly one Order_Item per cart line, with
\* the line's product and quantity and the product's price.
C6_ExactDecrementAndItems ==
    \A s \in Sessions :
       Succeeded(s) =>
          LET lines == CartOf(pre[s], customer_id[s])
              new   == db.Order_Item \ pre[s].Order_Item
              Match(i, l) == /\ i.order_id = result[s]
                             /\ i.product_id = l.product_id
                             /\ i.quantity = l.quantity
                             /\ i.unit_price = price[l.product_id]
          IN  /\ lines # {}
              /\ \A p \in Products :
                    db.stock[p] = pre[s].stock[p] - SumQuantity(lines, p)
              /\ Cardinality(new) = Cardinality(lines)
              /\ \A l \in lines : \E i \in new : Match(i, l)
              /\ \A i \in new : \E l \in lines : Match(i, l)
              /\ pre[s].Order_Item \subseteq db.Order_Item

\* a create_order call succeeded on a cart of two lines of unequal quantity
C6_Witness ==
    \E s \in Sessions :
       /\ Succeeded(s)
       /\ \E l1, l2 \in CartOf(pre[s], customer_id[s]) :
             l1.product_id # l2.product_id /\ l1.quantity # l2.quantity

\* C7: every committed Order row's total_amount is the sum of
\* quantity * unit_price over the Order_Item rows of that order.
C7_TotalIsSumOfItems ==
    \A o \in durable.Order :
       o.total_amount = SumLineTotals(ItemsOf(durable, o.order_id))

\* an order of two items, one of them of more than one unit, is committed
C7_Witness ==
    \E o \in durable.Order :
       /\ Cardinality(ItemsOf(durable, o.order_id)) = 2
       /\ \E i \in ItemsOf(durable, o.order_id) : i.quantity > 1

\* C8: when create_order returns an order id, the customer has no cart
\* lines, neither as seen nor as committed.
C8_CartEmptyAfterOrder ==
    \A s \in Sessions :
       Succeeded(s) => /\ CartOf(db, customer_id[s]) = {}
                       /\ CartOf(durable, customer_id[s]) = {}

\* create_order succeeded for one customer while the other's cart held lines
C8_Witness ==
    \E s \in Sessions :
       /\ Succeeded(s)
       /\ CartOf(pre[s], customer_id[s]) # {}
       /\ db.Cart # {}

\* C9: add_to_cart(customer, product, qty): if the customer had a line for
\* the product, that line's quantity grew by qty and the cart has no other
\* change; otherwise the cart gained exactly one line, of that customer,
\* product and quantity.
C9_AddToCartMerges ==
    \A s \in Sessions :
       Done(s, "add_to_cart") =>
          LET f   == frame[s]
              old == {r \in CartOf(pre[s], customer_id[s]) :
                         r.product_id = f.product_id}
          IN  IF old # {}
                 THEN \E l \in old :
                         db.Cart = (pre[s].Cart \ {l})
                                   \cup {[l EXCEPT !.quantity = l.quantity + f.quantity]}
                 ELSE \E r \in db.Cart :
                         /\ r.cart_id \notin CartIds(pre[s])
                         /\ db.Cart = pre[s].Cart \cup {r}
                         /\ r.customer_id = customer_id[s]
                         /\ r.product_id = f.product_id
                         /\ r.quantity = f.quantity

\* the same product was added with quantity a and then with b # a, and the
\* customer holds one line of quantity a + b
C9_Witness ==
    \E s \in Sessions :
       /\ Done(s, "add_to_cart")
       /\ \E l \in CartOf(pre[s], customer_id[s]) :
             /\ l.product_id = frame[s].product_id
             /\ l.quantity # frame[s].quantity
             /\ CartOf(db, customer_id[s]) =
                   {[l EXCEPT !.quantity = l.quantity + frame[s].quantity]}

\* C10: the Cart holds at most one line per (customer, product), also when
\* add_to_cart calls of two sessions of one customer interleave.
C10_OneLinePerCustomerProduct ==
    \A r1, r2 \in durable.Cart :
       (r1.customer_id = r2.customer_id /\ r1.product_id = r2.product_id)
       => r1 = r2

\* C11: as committed, every Order references exactly one Payment row and
\* exactly one Shipment row, that Payment's amount is the order's
\* total_amount, and every Payment row and every Shipment row is referenced
\* by exactly one Order.
C11_OnePaymentOneShipmentPerOrder ==
    /\ \A o \in durable.Order :
          /\ Cardinality({pay \in durable.Payment :
                             pay.payment_id = o.payment_id}) = 1
          /\ Cardinality({sh \in durable.Shipment :
                             sh.shipment_id = o.shipment_id}) = 1
          /\ \A pay \in durable.Payment :
                pay.payment_id = o.payment_id => pay.amount = o.total_amount
    /\ \A pay \in durable.Payment :
          Cardinality({o \in durable.Order : o.payment_id = pay.payment_id}) = 1
    /\ \A sh \in durable.Shipment :
          Cardinality({o \in durable.Order : o.shipment_id = sh.shipment_id}) = 1

\* two orders of different totals are committed, each with its own payment
\* and its own shipment
C11_Witness ==
    \E o1, o2 \in durable.Order :
       /\ o1.total_amount # o2.total_amount
       /\ o1.payment_id # o2.payment_id /\ o1.shipment_id # o2.shipment_id
       /\ Cardinality(durable.Payment) = 2 /\ Cardinality(durable.Shipment) = 2

PaymentOf(d, o) == {pay \in d.Payment : pay.payment_id = o.payment_id}

ShipmentOf(d, o) == {sh \in d.Shipment : sh.shipment_id = o.shipment_id}

\* C12: no step changes a committed order's Order_Item rows, its Payment
\* row, its Shipment row or any column of its Order row but the status.
C12_OrdersImmutable ==
    [][\A o \in durable.Order :
          /\ \E o2 \in durable'.Order : o2 = [o EXCEPT !.status = o2.status]
          /\ ItemsOf(durable', o.order_id) = ItemsOf(durable, o.order_id)
          /\ PaymentOf(durable', o) = PaymentOf(durable, o)
          /\ ShipmentOf(durable', o) = ShipmentOf(durable, o)]_vars

\* a committed order has been given another status, and its customer, whose
\* cart the order emptied, has added a product to the cart since
C12_Witness ==
    \E o \in durable.Order :
       /\ o.status = "Cancelled"
       /\ ItemsOf(durable, o.order_id) # {}
       /\ CartOf(durable, o.customer_id) # {}

\* C13: every step that puts a new Order row into the table (the INSERT of
\* create_order) gives it the status Processing.
C13_CreatedProcessing ==
    [][\A o \in db'.Order :
          o.order_id \notin OrderIds(db) => o.status = "Processing"]_vars

\* create_order has returned the id of the order it made, with no status
\* update since
C13_Witness ==
    \E s \in Sessions :
       /\ Succeeded(s)
       /\ \E o \in durable.Order :
             o.order_id = result[s] /\ o.status = "Processing"

\* C14: every Order row's status is one of the five values, and for every
\* order and every one of the five values the staff status update can be
\* taken and leaves the order with that value, whatever its status was.
C14_AnyStatusToAnyStatus ==
    \A o \in db.Order :
       /\ o.status \in {"Pending", "Processing", "Shipped", "Delivered", "Cancelled"}
       /\ \A st \in {"Pending", "Processing", "Shipped", "Delivered", "Cancelled"} :
             ENABLED (/\ StaffUpdateStatus(o.order_id, st)
                      /\ \E o2 \in db'.Order :
                            o2.order_id = o.order_id /\ o2.status = st)

\* an order stands at Pending, the status before the one it was created
\* with: the staff update has moved it backwards
C14_Witness ==
    \E o \in durable.Order :
       o.status = "Pending" /\ ItemsOf(durable, o.order_id) # {}

\* C15: no two committed Shipment rows carry the same tracking number.
C15_TrackingNumbersDiffer ==
    \A sh1, sh2 \in durable.Shipment :
       sh1.tracking_number = sh2.tracking_number => sh1 = sh2

\* C16: remove_from_cart(cart_id) has deleted the line of that id and no
\* other, has returned true if there was such a line and false if not, and
\* has left stock, orders, order items, payments and shipments as they were.
C16_RemoveFromCartFrame ==
    \A s \in Sessions :
       Done(s, "remove_from_cart") =>
          LET id == frame[s].cart_id IN
          /\ db.Cart = {r \in pre[s].Cart : r.cart_id # id}
          /\ result[s] = IF \E r \in pre[s].Cart : r.cart_id = id
                             THEN PyTrue ELSE PyFalse
          /\ db.stock = pre[s].stock
          /\ db.Order = pre[s].Order /\ db.Order_Item = pre[s].Order_Item
          /\ db.Payment = pre[s].Payment /\ db.Shipment = pre[s].Shipment
          /\ durable = db

\* the second of three cart lines has been removed
C16_Witness ==
    \E s \in Sessions :
       /\ Done(s, "remove_from_cart") /\ result[s] = PyTrue
       /\ \E r1, r2 \in db.Cart :
             r1.cart_id < frame[s].cart_id /\ frame[s].cart_id < r2.cart_id

\* C17: get_cart_items is a pure read.  When it returns, the tables, as seen
\* and as committed, are as the call found them, and the list it returned
\* is the list a second call made now, nothing having changed, returns.
C17_GetCartItemsPure ==
    \A s \in Sessions :
       Done(s, "get_cart_items") =>
          /\ db = pre[s] /\ durable = pre[s]
          /\ frame[s].cart_items = get_cart_items(db, customer_id[s])

\* get_cart_items has returned a list of two lines while the other
\* customer's cart holds a line too
C17_Witness ==
    \E s \in Sessions :
       /\ Done(s, "get_cart_items")
       /\ Len(frame[s].cart_items) = 2
       /\ \E r \in db.Cart : r.customer_id # customer_id[s]

RECURSIVE SumCartTotals(_)
\* the sum of the product's price * quantity over a set of cart lines
SumCartTotals(lines) ==
    IF lines = {} THEN 0
    ELSE LET l == CHOOSE x \in lines : TRUE
         IN  price[l.product_id] * l.quantity + SumCartTotals(lines \ {l})

\* C18: get_cart_items returns one element per cart line of the customer
\* and no other, each with the line's product and quantity, the product's
\* price and total_price = price * quantity; and the order a successful
\* create_order made, and its payment, carry the sum of those totals over
\* the cart lines the call found.
C18_LineTotalsAndCharge ==
    \A s \in Sessions :
       LET lines == CartOf(pre[s], customer_id[s])
           items == frame[s].cart_items
           Match(i, l) == /\ i.cart_id = l.cart_id
                          /\ i.product_id = l.product_id
                          /\ i.quantity = l.quantity
                          /\ i.price = price[l.product_id]
                          /\ i.total_price = price[l.product_id] * l.quantity
       IN  /\ Done(s, "get_cart_items") =>
                /\ Len(items) = Cardinality(lines)
                /\ \A l \in lines : \E k \in 1..Len(items) : Match(items[k], l)
                /\ \A k \in 1..Len(items) : \E l \in lines : Match(items[k], l)
           /\ Succeeded(s) =>
                \E o \in db.Order :
                   /\ o.order_id = result[s]
                   /\ o.total_amount = SumCartTotals(lines)
                   /\ \A pay \in PaymentOf(db, o) :
                         pay.amount = SumCartTotals(lines)
                   /\ PaymentOf(db, o) # {}

\* get_cart_items has returned two lines, one of them of two units, while
\* the other customer's cart holds a line
C18_Witness ==
    \E s \in Sessions :
       /\ Done(s, "get_cart_items")
       /\ \E k1, k2 \in 1..Len(frame[s].cart_items) :
             /\ frame[s].cart_items[k1].quantity = 2
             /\ frame[s].cart_items[k2].quantity = 1
       /\ db.Cart # CartOf(db, customer_id[s])

\* C19: however the sessions' statements interleave, the committed tables
\* never hold part of an order: no Payment and no Shipment row without the
\* Order row that references it, and no Order row without Order_Item rows.
C19_NoPartialOrderDurable ==
    /\ \A pay \in durable.Payment :
          \E o \in durable.Order : o.payment_id = pay.payment_id
    /\ \A sh \in durable.Shipment :
          \E o \in durable.Order : o.shipment_id = sh.shipment_id
    /\ \A o \in durable.Order : ItemsOf(durable, o.order_id) # {}

\* C20: when a create_order call commits and returns its order id, every
\* cart line of the customer that its cart clear takes out of the committed
\* cart has an Order_Item of the new order with the line's product and
\* quantity, also when an add_to_cart of the same customer ran between the
\* call's cart read and its cart clear.
C20_ClearedLinesAreOrdered ==
    [][\A s \in Sessions :
          (pc[s] = "co_commit" /\ pc'[s] = "done" /\ result'[s] # None) =>
             \A l \in CartOf(durable, customer_id[s])
                       \ CartOf(durable', customer_id[s]) :
                \E i \in ItemsOf(durable', result'[s]) :
                   i.product_id = l.product_id /\ i.quantity = l.quantity]_vars

RECURSIVE SumItemQuantity(_, _)
\* the units of product p in a set of Order_Item rows
SumItemQuantity(items, p) ==
    IF items = {} THEN 0
    ELSE LET i == CHOOSE x \in items : TRUE
         IN  (IF i.product_id = p THEN i.quantity ELSE 0)
             + SumItemQuantity(items \ {i}, p)

\* C21: with no staff stock update in the run, in every committed state and
\* for every product, the stock init_database gave it (MaxStock) minus its
\* stock now is the sum of the quantities of its Order_Item rows.
C21_StockConservation ==
    \A p \in Products :
       MaxStock - durable.stock[p] = SumItemQuantity(durable.Order_Item, p)

\* two orders with items of one product, of different quantities, are
\* committed
C21_Witness ==
    \E i1, i2 \in durable.Order_Item :
       /\ i1.order_id # i2.order_id
       /\ i1.product_id = i2.product_id
       /\ i1.quantity # i2.quantity

\* C22: a create_order call of customer c, whether it returned an order id
\* or None, left every other customer's cart lines as it found them; an
\* add_to_cart call of c for a product left every cart line but c's line
\* for that product, and the stock, the orders, their items, the payments
\* and the shipments, as it found them.
C22_OtherCartsAndTablesUntouched ==
    \A s \in Sessions :
       LET c == customer_id[s]
           Others(d) == {r \in d.Cart :
                           ~(r.customer_id = c
                             /\ r.product_id = frame[s].product_id)}
       IN  /\ Done(s, "create_order") =>
                \A c2 \in Customers \ {c} :
                   /\ CartOf(db, c2) = CartOf(pre[s], c2)
                   /\ CartOf(durable, c2) = CartOf(pre[s], c2)
           /\ Done(s, "add_to_cart") =>
                /\ Others(db) = Others(pre[s])
                /\ db.stock = pre[s].stock
                /\ db.Order = pre[s].Order /\ db.Order_Item = pre[s].Order_Item
                /\ db.Payment = pre[s].Payment /\ db.Shipment = pre[s].Shipment
                /\ durable = db

\* create_order has returned an order id for a customer while the other
\* customer's cart holds a line of a product that was in the ordered cart
C22_Witness ==
    \E s \in Sessions :
       /\ Succeeded(s)
       /\ \E l \in CartOf(pre[s], customer_id[s]), r \in db.Cart :
             r.customer_id # customer_id[s] /\ r.product_id = l.product_id
====
